---- MODULE Spec2Model ----
(***************************************************************************)
(* Model of get_data (src/analyze.py): loading a death table from CSV rows *)
(* and the tail-redistribution ("repair") heuristic applied to the last    *)
(* bucket.  A table is the dict death_count_by_age in insertion order: a   *)
(* sequence of <<age, count>> pairs with unique ages.  Rows are the CSV    *)
(* rows after the age and dx fields have been converted to integers.       *)
(***************************************************************************)
EXTENDS Integers, Sequences, FiniteSets, TLC

\* ------------------------------------------------------------------------
\* Bounds of the explored inputs
\* ------------------------------------------------------------------------
MaxRows == 3

MaxCount == 3

\* ------------------------------------------------------------------------
\* Program constants
\* ------------------------------------------------------------------------
OPTIMISTIC_MODE == TRUE

ExpectedOldestAge == 100

AgeCap == 110

\* Width of an IEEE-754 double significand (Python float).
MantissaBits == 53

\* ------------------------------------------------------------------------
\* Small helpers
\* ------------------------------------------------------------------------
Min(a, b) == IF a <= b THEN a ELSE b

Max(a, b) == IF a >= b THEN a ELSE b

\* ------------------------------------------------------------------------
\* Python float arithmetic (IEEE-754 binary64, round to nearest, ties to
\* even) on the values get_data feeds it: ints a, b, p with 0 <= b, p < 2^17
\* and 0 < a < 2^17.  A positive float is [zero |-> FALSE, m |-> limbs,
\* e |-> exp]: m = <<1, d1, d2, d3, d4>> holds the 53 significand bits, the
\* leading 1 and four 13-bit limbs, and the float is
\* (2^52 + d1*2^39 + d2*2^26 + d3*2^13 + d4) * 2^(exp - 52).
\* ------------------------------------------------------------------------
LimbBits == (MantissaBits - 1) \div 4

Limb == 2^LimbBits

FloatZero == [zero |-> TRUE, m |-> <<0, 0, 0, 0, 0>>, e |-> 0]

\* Scale num and den by powers of two until den <= num < 2*den.
RECURSIVE Normalize(_, _, _)
Normalize(num, den, e) ==
    IF num < den THEN Normalize(2 * num, den, e - 1)
    ELSE IF num >= 2 * den THEN Normalize(num, 2 * den, e + 1)
    ELSE [num |-> num, den |-> den, e |-> e]

\* The next n limbs of the quotient rem/den by long division (rem < den).
RECURSIVE DivLimbs(_, _, _, _)
DivLimbs(rem, den, n, acc) ==
    IF n = 0 THEN [m |-> acc, rem |-> rem]
    ELSE DivLimbs((rem * Limb) % den, den, n - 1,
                  Append(acc, (rem * Limb) \div den))

\* Add one unit in the last place; the leading limb takes the last carry.
RECURSIVE IncLimbs(_, _)
IncLimbs(m, i) ==
    IF i = 1 THEN [m EXCEPT ![1] = m[1] + 1]
    ELSE IF m[i] + 1 < Limb THEN [m EXCEPT ![i] = m[i] + 1]
    ELSE IncLimbs([m EXCEPT ![i] = 0], i - 1)

\* Shift a significand right by one bit.
Shr1(m) ==
    [i \in 1..Len(m) |->
        IF i = 1 THEN m[1] \div 2
        ELSE (m[i - 1] % 2) * (Limb \div 2) + m[i] \div 2]

\* Round to nearest, ties to even: guard is the first bit dropped, sticky
\* tells whether any bit after it is set.
RoundEven(m, e, guard, sticky) ==
    IF guard = 1 /\ (sticky \/ m[Len(m)] % 2 = 1)
    THEN LET up == IncLimbs(m, Len(m))
         IN  IF up[1] = 2
             THEN [zero |-> FALSE, m |-> Shr1(up), e |-> e + 1]
             ELSE [zero |-> FALSE, m |-> up, e |-> e]
    ELSE [zero |-> FALSE, m |-> m, e |-> e]

\* Bring the leading limb back to 1, keeping track of the bits dropped,
\* then round.
RECURSIVE ShiftRound(_, _, _, _)
ShiftRound(m, e, guard, sticky) ==
    IF m[1] < 2 THEN RoundEven(m, e, guard, sticky)
    ELSE ShiftRound(Shr1(m), e + 1, m[Len(m)] % 2, sticky \/ guard = 1)

\* Round the quotient d (limbs and last remainder) of a division by den.
RoundQuotient(d, den, e) ==
    IF 2 * d.rem >= den THEN RoundEven(d.m, e, 1, 2 * d.rem - den # 0)
    ELSE RoundEven(d.m, e, 0, d.rem # 0)

FloatDivNormal(nz) ==
    RoundQuotient(DivLimbs(nz.num - nz.den, nz.den, 4, <<1>>), nz.den, nz.e)

\* b / a for Python ints (true division, correctly rounded).
FloatDiv(b, a) ==
    IF b = 0 THEN FloatZero ELSE FloatDivNormal(Normalize(b, a, 0))

\* m * k limb by limb from the right; the leading limb keeps the carry.
RECURSIVE MulLimbs(_, _, _, _)
MulLimbs(m, k, i, carry) ==
    IF i = 1 THEN [m EXCEPT ![1] = m[1] * k + carry]
    ELSE MulLimbs([m EXCEPT ![i] = (m[i] * k + carry) % Limb], k, i - 1,
                  (m[i] * k + carry) \div Limb)

\* float(p) * f, for an int p (float(p) is exact).
FloatMulInt(p, f) ==
    IF p = 0 \/ f.zero THEN FloatZero
    ELSE ShiftRound(MulLimbs(f.m, p, Len(f.m), 0), f.e, 0, FALSE)

\* int(f): truncation toward zero (f >= 0, below 2^27).
FloatToInt(f) ==
    IF f.zero \/ f.e < 0 THEN 0
    ELSE ((f.m[1] * Limb + f.m[2]) * Limb + f.m[3]) \div 2^(2 * LimbBits - f.e)

\* ------------------------------------------------------------------------
\* The dict death_count_by_age and the rows it is read from
\* ------------------------------------------------------------------------
AgeSet == {98, 99, 100, 101}

RowSet == AgeSet \X (0..MaxCount)

SmallInputs == UNION {[1..n -> RowSet] : n \in 0..MaxRows}

\* The table of the documented scenario, and a table on which the float
\* product falls just below an integer (30/26 is rounded down).
ScenarioRows == <<<<98, 5300>>, <<99, 5000>>, <<100, 12000>>>>

RoundingRows == <<<<98, 26>>, <<99, 30>>, <<100, 122>>>>

Inputs == SmallInputs \cup {ScenarioRows, RoundingRows}

MinAges == {0, 99}

\* d[k] = v: an existing key keeps its place, a new key goes last.
DictSet(t, k, v) ==
    IF \E i \in 1..Len(t) : t[i][1] = k
    THEN [i \in 1..Len(t) |-> IF t[i][1] = k THEN <<k, v>> ELSE t[i]]
    ELSE Append(t, <<k, v>>)

\* The row loop: rows below min_age are skipped, later rows overwrite.
RECURSIVE ReadRows(_, _, _)
ReadRows(rs, min, t) ==
    IF rs = << >> THEN t
    ELSE IF rs[1][1] < min THEN ReadRows(Tail(rs), min, t)
    ELSE ReadRows(Tail(rs), min, DictSet(t, rs[1][1], rs[1][2]))

\* list(death_count_by_age.items())[-3:]
OldestDeathData(t) == SubSeq(t, Max(1, Len(t) - 2), Len(t))

\* oldest_death_data[-k]
FromEnd(o, k) == o[Len(o) + 1 - k]

\* Variants of the trigger: ">=" for ">", and the comparison left out.
TriggeredOrEqual(o) == OPTIMISTIC_MODE /\ FromEnd(o, 1)[2] >= FromEnd(o, 2)[2]

TriggeredAlways(o) == OPTIMISTIC_MODE

\* OPTIMISTIC_MODE and oldest_death_data[-1][1] > oldest_death_data[-2][1]
Triggered(o) == OPTIMISTIC_MODE /\ FromEnd(o, 1)[2] > FromEnd(o, 2)[2]

\* Variant of the age check: any last age from 100 on is accepted.
OldestAgeAtLeast(a) == a >= ExpectedOldestAge

\* age != 100 raises ValueError
OldestAgeOk(a) == a = ExpectedOldestAge

\* Variant of the rate: the ratio taken the other way round.
ChangeRateInverted(o) == FloatDiv(FromEnd(o, 3)[2], FromEnd(o, 2)[2])

\* oldest_death_data[-2][1] / oldest_death_data[-3][1]
ChangeRate(o) == FloatDiv(FromEnd(o, 2)[2], FromEnd(o, 3)[2])

\* Variant of the yearly count: the min with the remaining deaths left out.
ThisYearUncapped(rem, previous, r) ==
    Max(0, FloatToInt(FloatMulInt(previous, r)))

\* min(remaining, max(0, int(float(previous) * rate)))
ThisYear(rem, previous, r) ==
    Min(rem, Max(0, FloatToInt(FloatMulInt(previous, r))))

\* Variant of the cap: one year late.
CapReachedLate(a) == a > AgeCap + 1

\* if age > 110: break
CapReached(a) == a > AgeCap

\* ------------------------------------------------------------------------
\* State
\* ------------------------------------------------------------------------
VARIABLES
    rows,       \* the CSV rows, as <<age, dx>> pairs
    min_age,    \* the min_age argument
    source,     \* "csv", or what an earlier call returned: "returned", "repaired"
    pc,         \* "start", "inspect", "loop", "done" (returned), "error" (raised)
    err,        \* the exception raised, "none" if none
    table,      \* death_count_by_age
    orig,       \* death_count_by_age as it was when the row loop ended
    age,        \* age
    remaining,  \* remaining_deaths_to_redistribute
    prev,       \* previous_year_death_count
    rate,       \* deaths_per_year_change_rate
    iters,      \* iterations of the while loop so far
    written     \* the counts the loop assigned, in order (ages 100, 101, ...)

vars == <<rows, min_age, source, pc, err, table, orig, age, remaining, prev,
          rate, iters, written>>

Init ==
    /\ rows \in Inputs
    /\ min_age \in MinAges
    /\ source = "csv"
    /\ pc = "start"
    /\ err = "none"
    /\ table = << >>
    /\ orig = << >>
    /\ age = 0
    /\ remaining = 0
    /\ prev = 0
    /\ rate = FloatZero
    /\ iters = 0
    /\ written = << >>

\* Lines 19-31: build the dict from the rows.
Load ==
    /\ pc = "start"
    /\ table' = ReadRows(rows, min_age, << >>)
    /\ orig' = table'
    /\ pc' = "inspect"
    /\ UNCHANGED <<rows, min_age, source, err, age, remaining, prev, rate,
                   iters, written>>

Raise(e) ==
    /\ pc' = "error"
    /\ err' = e
    /\ UNCHANGED <<rows, min_age, source, table, orig, age, remaining, prev,
                   rate, iters, written>>

\* Lines 38-53: look at the last three entries and set up the loop.
Inspect ==
    /\ pc = "inspect"
    /\ LET o == OldestDeathData(table)
       IN  IF Len(o) < 2 THEN Raise("IndexError")
           ELSE IF ~Triggered(o)
           THEN /\ pc' = "done"
                /\ UNCHANGED <<rows, min_age, source, err, table, orig, age,
                               remaining, prev, rate, iters, written>>
           ELSE IF ~OldestAgeOk(FromEnd(o, 1)[1]) THEN Raise("ValueError")
           ELSE IF Len(o) < 3 THEN Raise("IndexError")
           ELSE IF FromEnd(o, 3)[2] = 0 THEN Raise("ZeroDivisionError")
           ELSE /\ age' = FromEnd(o, 1)[1]
                /\ remaining' = FromEnd(o, 1)[2]
                /\ prev' = FromEnd(o, 2)[2]
                /\ rate' = ChangeRate(o)
                /\ pc' = "loop"
                /\ UNCHANGED <<rows, min_age, source, err, table, orig, iters,
                               written>>

\* Variant of the loop body: the table gets previous_year_death_count.
RedistributeStoresPrevious ==
    /\ pc = "loop"
    /\ remaining > 0
    /\ LET this_year == ThisYear(remaining, prev, rate)
       IN  /\ table' = DictSet(table, age, prev)
           /\ remaining' = remaining - this_year
           /\ prev' = this_year
           /\ written' = Append(written, this_year)
    /\ age' = age + 1
    /\ iters' = iters + 1
    /\ pc' = IF CapReached(age') THEN "done" ELSE "loop"
    /\ UNCHANGED <<rows, min_age, source, err, orig, rate>>

\* Lines 54-80: one iteration of the while loop.
Redistribute ==
    /\ pc = "loop"
    /\ remaining > 0
    /\ LET this_year == ThisYear(remaining, prev, rate)
       IN  /\ table' = DictSet(table, age, this_year)
           /\ remaining' = remaining - this_year
           /\ prev' = this_year
           /\ written' = Append(written, this_year)
    /\ age' = age + 1
    /\ iters' = iters + 1
    /\ pc' = IF CapReached(age') THEN "done" ELSE "loop"
    /\ UNCHANGED <<rows, min_age, source, err, orig, rate>>

\* Line 54: the while condition fails; line 82 returns.
LoopExit ==
    /\ pc = "loop"
    /\ remaining <= 0
    /\ pc' = "done"
    /\ UNCHANGED <<rows, min_age, source, err, table, orig, age, remaining,
                   prev, rate, iters, written>>

\* get_data is called again on the rows of the table it returned.
Reload ==
    /\ pc = "done"
    /\ source = "csv"
    /\ rows' = table
    /\ source' = IF iters > 0 THEN "repaired" ELSE "returned"
    /\ pc' = "start"
    /\ err' = "none"
    /\ table' = << >>
    /\ orig' = << >>
    /\ age' = 0
    /\ remaining' = 0
    /\ prev' = 0
    /\ rate' = FloatZero
    /\ iters' = 0
    /\ written' = << >>
    /\ UNCHANGED min_age

Next == Load \/ Inspect \/ Redistribute \/ LoopExit \/ Reload

Spec == Init /\ [][Next]_vars

\* ------------------------------------------------------------------------
\* Vocabulary of the properties
\* ------------------------------------------------------------------------
RECURSIVE SumCounts(_)
SumCounts(t) == IF t = << >> THEN 0 ELSE t[1][2] + SumCounts(Tail(t))

RECURSIVE SumInts(_)
SumInts(q) == IF q = << >> THEN 0 ELSE q[1] + SumInts(Tail(q))

Ages(t) == {t[i][1] : i \in 1..Len(t)}

HasAge(t, a) == \E i \in 1..Len(t) : t[i][1] = a

CountAt(t, a) == LET i == CHOOSE j \in 1..Len(t) : t[j][1] = a IN t[i][2]

LastAge(t) == t[Len(t)][1]

LastCount(t) == t[Len(t)][2]

SecondLastCount(t) == t[Len(t) - 1][2]

\* The last bucket reports more deaths than the one before it.
TailInflated(t) == Len(t) >= 2 /\ LastCount(t) > SecondLastCount(t)

\* The row loop has ended and the last entries have been looked at.
Inspected == pc \in {"loop", "done", "error"}

SyntheticAges == 100..110

ScenarioResult ==
    <<<<98, 5300>>, <<99, 5000>>, <<100, 4716>>, <<101, 4449>>, <<102, 2835>>>>

\* ------------------------------------------------------------------------
\* Properties
\* ------------------------------------------------------------------------

\* C1: whenever get_data returns, the counts of the returned table sum to at
\* most the sum of the counts of the table as read, before repair.
C1_SumNeverGrows ==
    pc = "done" => SumCounts(table) <= SumCounts(orig)

\* C1 witness: a repair that stopped at the cap and dropped deaths.
C1_Witness ==
    /\ pc = "done"
    /\ iters > 0
    /\ age > 110
    /\ SumCounts(table) < SumCounts(orig)

\* C2 as stated: when the loop ends with nothing remaining and the age still
\* within the cap, the returned table sums to the pre-repair sum, and the
\* counts written add up to the original age-100 count.
C2_SumConserved ==
    (pc = "done" /\ iters > 0 /\ remaining = 0 /\ age <= 110)
        => /\ SumCounts(table) = SumCounts(orig)
           /\ SumInts(written) = CountAt(orig, 100)

\* C3: when the last count does not exceed the second-to-last, get_data
\* returns the table as read: same entries, same order, nothing written,
\* no error.
C3_NoInflationNoChange ==
    (Inspected /\ Len(orig) >= 2 /\ LastCount(orig) <= SecondLastCount(orig))
        => /\ pc = "done"
           /\ table = orig
           /\ written = << >>

\* C3 witness: a returned three-entry table ending at age 100 whose last
\* count equals the second-to-last.
C3_Witness ==
    /\ pc = "done"
    /\ Len(orig) >= 3
    /\ LastAge(orig) = 100
    /\ LastCount(orig) = SecondLastCount(orig)
    /\ SecondLastCount(orig) > 0

\* C4: the loop runs at most 11 iterations, the i-th one at age 99 + i, so
\* it writes at ages 100..110 only; entries at other ages are those read,
\* unchanged, and the loop is left once nothing remains or age exceeds 110.
C4_LoopBounded ==
    /\ iters <= 11
    /\ Len(written) = iters
    /\ pc = "loop" => (age = 100 + iters /\ age <= 110)
    /\ iters > 0 => age = 100 + iters
    /\ (pc = "done" /\ iters > 0) => (remaining <= 0 \/ age > 110)
    /\ Inspected =>
          /\ Ages(table) \ Ages(orig) \subseteq SyntheticAges
          /\ Ages(orig) \subseteq Ages(table)
          /\ \A a \in Ages(orig) \ SyntheticAges : CountAt(table, a) = CountAt(orig, a)

\* C4 witness: the loop ran its 11 iterations, created the entry at age 110
\* and stopped with deaths left over.
C4_Witness ==
    /\ pc = "done"
    /\ iters = 11
    /\ remaining > 0
    /\ HasAge(table, 110)
    /\ ~HasAge(orig, 110)

\* C5 as stated: a table of fewer than three entries makes loading fail
\* with the insufficient-data error (IndexError here) and return nothing.
C5_TooFewEntriesFail ==
    (Inspected /\ Len(orig) < 3) => (pc = "error" /\ err = "IndexError")

\* C6 as stated: when repair is triggered and the divisor of the rate is 0,
\* loading fails with the data-assumption error (the ValueError of the age
\* check), not with an arithmetic exception.
C6_ZeroDivisorIsAssumptionError ==
    (/\ Inspected
     /\ Len(orig) >= 3
     /\ TailInflated(orig)
     /\ LastAge(orig) = 100
     /\ orig[Len(orig) - 2][2] = 0)
        => (pc = "error" /\ err = "ValueError")

\* C7: when the last count exceeds the second-to-last and the last age is
\* not 100, loading fails with ValueError, the loop is never entered and
\* the table is as read.
C7_WrongOldestAgeFails ==
    (Inspected /\ TailInflated(orig) /\ LastAge(orig) # 100)
        => /\ pc = "error"
           /\ err = "ValueError"
           /\ table = orig
           /\ iters = 0

\* C7 witness: an inflated last bucket at age 101 of a table of three
\* entries was refused.
C7_Witness ==
    /\ pc = "error"
    /\ err = "ValueError"
    /\ Len(orig) >= 3
    /\ LastAge(orig) = 101
    /\ LastCount(orig) > SecondLastCount(orig)

\* C8: get_data run on the table a repair returned, when its last count
\* does not exceed its second-to-last, returns that table unchanged.
C8_RepairIdempotent ==
    (source = "repaired" /\ Inspected /\ ~TailInflated(orig))
        => /\ pc = "done"
           /\ orig = rows
           /\ table = rows
           /\ written = << >>

\* C8 witness: a repaired table with synthetic entries after age 100 went
\* through a second call.
C8_Witness ==
    /\ source = "repaired"
    /\ pc = "done"
    /\ Len(rows) >= 4
    /\ LastAge(rows) > 100
    /\ LastCount(rows) > 0
    /\ table = rows

\* C9 as stated: after a repair the count at age 100 is the original count
\* at age 100 minus the counts written at ages 101 and above.
C9_ResidualAt100 ==
    (pc = "done" /\ iters > 0)
        => CountAt(table, 100) = CountAt(orig, 100) - SumInts(Tail(written))

\* C9 amended: after a repair the count at age 100 is the first count the
\* loop assigned, which is the original count at age 100 minus the counts
\* written at ages 101 and above minus the deaths still remaining when the
\* loop stopped.
C9_FirstShareAt100 ==
    (pc = "done" /\ iters > 0)
        => /\ CountAt(table, 100) = written[1]
           /\ CountAt(table, 100) =
                 CountAt(orig, 100) - SumInts(Tail(written)) - remaining

\* C9 witness: a repair that stopped at the cap with deaths left over and a
\* positive count at age 100.
C9_Witness ==
    /\ pc = "done"
    /\ iters = 11
    /\ remaining > 0
    /\ CountAt(table, 100) > 0
    /\ CountAt(table, 100) < CountAt(orig, 100)

\* C10 as stated: on {98: 5300, 99: 5000, 100: 12000} age 100 gets 4716
\* leaving 7284 and age 101 gets 4450 leaving 2834.
C10_ScenarioAsStated ==
    (orig = ScenarioRows /\ iters >= 2)
        => /\ written[1] = 4716
           /\ written[2] = 4450
           /\ iters = 2 => remaining = 2834

\* C10 amended: on {98: 5300, 99: 5000, 100: 12000} the rate is 5000/5300,
\* age 100 gets 4716 leaving 7284, age 101 gets 4449 leaving 2835, age 102
\* gets the remaining 2835, and the loop stops there with nothing left:
\* ages 100..102 are populated and hold 12000 deaths in all.
C10_ScenarioTrace ==
    (orig = ScenarioRows /\ pc \in {"loop", "done"})
        => /\ rate = FloatDiv(5000, 5300)
           /\ iters >= 1 => written[1] = 4716
           /\ iters = 1 => remaining = 7284
           /\ iters >= 2 => written[2] = 4449
           /\ iters = 2 => remaining = 2835
           /\ iters >= 3 => written[3] = 2835
           /\ pc = "done" =>
                 /\ iters = 3
                 /\ remaining = 0
                 /\ table = ScenarioResult
                 /\ SumInts(written) = 12000

\* C10 witness: the scenario table has been repaired and returned.
C10_Witness ==
    /\ pc = "done"
    /\ rows = ScenarioRows
    /\ iters = 3
    /\ HasAge(table, 102)

====
